---- MODULE Spec2Model ----
(***************************************************************************)
(* go-agent: the tool registry (toolstore.ToolStore), the reflective       *)
(* invocation engine (evaluation.Tool.Evaluate), the streaming generation  *)
(* engine (llm.OllamaEngine) and the agent that ties them (agent.Agent).   *)
(*                                                                         *)
(* Values are records [t, v, elems]: t is the Go type of the value, v its  *)
(* payload as an integer, elems the elements of a slice.  A float64 is     *)
(* kept on a grid of halves: v = 5 stands for 2.5.  A string is kept as a  *)
(* code.  An error is kept as a code, 0 being the nil error.               *)
(***************************************************************************)
EXTENDS Integers, Sequences, FiniteSets, TLC

\* longest argument list handed to Evaluate
MaxArgs == 3

\* number of Evaluate calls one run of the caller makes after the first
MaxCalls == 2

VARIABLES
    req,        \* the Evaluate call in hand: [tool, args]
    outcome,    \* what the last Evaluate call gave back
    prev,       \* the outcome of the Evaluate call before the last one
    epc,        \* the evaluating caller: "call", "ret", or "dead" after an escaped panic
    ncalls      \* Evaluate calls made after the first

VARIABLES
    tools,      \* ToolStore.tools: the map from names to tools
    lastOp,     \* the last call on the store made by its single caller, with what it returned
    firstReg    \* per name, the tool of the successful AddTool not yet removed

VARIABLES
    pc,         \* per goroutine, the statement of the store method it is at
    call,       \* per goroutine, the method call it is in: [op, name, tool]
    ret,        \* per goroutine, the error its last call returned
    nops,       \* per goroutine, the calls it has started
    inWrite,    \* the goroutines inside a write of the map
    raceSeen,   \* a map access has overlapped a write of the map
    crashed,    \* the runtime has stopped the process on a concurrent map access
    regCount    \* per name, successful AddTool calls less successful RemoveTool calls

VARIABLES
    activeTasks,  \* OllamaEngine.activeTasks: from prompt to the session whose cancel it holds
    sess,         \* the generation sessions started, by number
    nsess,        \* the number of GenerateTokens calls made
    stopRet       \* the last StopGeneration call: [key, err]

VARIABLES
    apc,          \* Agent.Execute: "idle", "start", "range" (collecting tokens), "done"
    llmReply,     \* what the model answers to the prompt: [wellFormed, call]
    execRet       \* what Execute returned, with the stages it ran

VARIABLES
    mu,           \* OllamaEngine.mu: who holds it
    cpc,          \* the caller of the engine, where its steps under the lock are told apart
    ckey          \* the prompt of the call that caller is in

VARIABLES
    pkgRet        \* the NewFunctionStoreFromPkg call made, with what it gave back

evars == <<req, outcome, prev, epc, ncalls>>
gvars == <<activeTasks, sess, nsess, stopRet>>
avars == <<apc, llmReply, execRet>>
lvars == <<mu, cpc, ckey>>
svars == <<tools, lastOp, firstReg>>
rvars == <<pc, call, ret, nops, inWrite, raceSeen, crashed, regCount>>
pvars == <<pkgRet>>
vars == <<evars, svars, rvars, gvars, avars, lvars, pvars>>

----------------------------------------------------------------------------
\* Dynamically typed values (interface{} arguments, reflect.Value)

Val(t, v) == [t |-> t, v |-> v, elems |-> <<>>]
SliceVal(t, es) == [t |-> t, v |-> 0, elems |-> es]
IntV(n) == Val("int", n)
FloatV(h) == Val("float64", h)
StrV(c) == Val("string", c)
ErrVal(c) == Val("error", c)

\* interface{}(nil): reflect.ValueOf gives the zero Value, which has no type
NilArg == Val("nil", 0)

SliceTypes == {"[]float64", "[]any"}
IntTypes == {"int", "int8"}
NumericTypes == IntTypes \cup {"float64"}

\* reflect.Type.Elem of a slice type
Elem(t) == IF t = "[]float64" THEN "float64" ELSE "any"

\* reflect.Value.Index(j): the element, typed by the slice's element type
Index(sv, j) == [t |-> Elem(sv.t), v |-> sv.elems[j].v, elems |-> sv.elems[j].elems]

\* reflect.Type.AssignableTo over the types of the model: the identical type,
\* or any type to the empty interface
AssignableTo(t, target) == t = target \/ target = "any"

\* reflect.Value.CanConvert: numeric to numeric, integer to string
CanConvert(val, target) ==
    \/ val.t \in NumericTypes /\ target \in NumericTypes
    \/ val.t \in IntTypes /\ target = "string"
    \/ val.t = "string" /\ target = "string"

\* truncation toward zero of x / y
TruncDiv(x, y) ==
    LET ax == IF x < 0 THEN -x ELSE x
        ay == IF y < 0 THEN -y ELSE y
        q  == ax \div ay
    IN IF (x < 0) = (y < 0) THEN q ELSE -q

\* two's complement wrap to 8 bits
WrapInt8(n) == ((n + 128) % 256) - 128

\* string(rune(n)) as a string code of its own
RuneStr(n) == 1000 + n

\* reflect.Value.Convert
Convert(val, target) ==
    CASE val.t = target -> val
      [] val.t \in IntTypes /\ target = "float64" -> FloatV(2 * val.v)
      [] val.t = "float64" /\ target = "int" -> IntV(TruncDiv(val.v, 2))
      [] val.t = "float64" /\ target = "int8" -> Val("int8", WrapInt8(TruncDiv(val.v, 2)))
      [] val.t = "int" /\ target = "int8" -> Val("int8", WrapInt8(val.v))
      [] val.t = "int8" /\ target = "int" -> IntV(val.v)
      [] val.t \in IntTypes /\ target = "string" -> StrV(RuneStr(val.v))

----------------------------------------------------------------------------
\* The callables a Tool can hold (Tool.Function)

\* go-agent/calculator, as registered by the demos
CalculatorTools == {"Add", "Divide", "Factorial"}

\* further callables: a variadic one, one that panics, one with a narrow
\* integer parameter, one with a string parameter, one without parameters
\* or results
OtherTools == {"Sum", "IntDiv", "Narrow", "Echo", "Noop"}

\* a Tool whose Function field holds something that is no function
NotFunc == "NotFunc"

ToolNames == CalculatorTools \cup OtherTools \cup {NotFunc}

\* reflect.ValueOf(t.Function).Kind() == reflect.Func
IsFunc(fn) == fn # NotFunc

\* functionType.In(i) for i = 1..NumIn, the last being the slice type of a
\* variadic parameter
ParamTypes(fn) ==
    CASE fn = "Add" -> <<"float64", "float64">>
      [] fn = "Divide" -> <<"float64", "float64">>
      [] fn = "Factorial" -> <<"int">>
      [] fn = "Sum" -> <<"int", "[]float64">>
      [] fn = "IntDiv" -> <<"int", "int">>
      [] fn = "Narrow" -> <<"int8">>
      [] fn = "Echo" -> <<"string">>
      [] OTHER -> <<>>

\* functionType.IsVariadic()
IsVariadic(fn) == fn = "Sum"

\* functionType.NumIn()
NumIn(fn) == Len(ParamTypes(fn))

\* the declared result types; "error" is the error interface
ResultTypes(fn) ==
    CASE fn = "Add" -> <<"float64">>
      [] fn = "Divide" -> <<"float64", "error">>
      [] fn = "Factorial" -> <<"float64", "error">>
      [] fn = "Sum" -> <<"float64">>
      [] fn = "IntDiv" -> <<"int">>
      [] fn = "Narrow" -> <<"int8">>
      [] fn = "Echo" -> <<"string">>
      [] OTHER -> <<>>

\* error codes of the calculator's errors.New values
ErrDivisionByZero == 1
ErrNegativeFactorial == 2

\* float64 +Inf, on the grid of halves
FloatInf == 1073741824

\* the largest n whose factorial is a finite float64
MaxFiniteFactorial == 170

RECURSIVE Product(_)
Product(n) == IF n < 2 THEN 1 ELSE n * Product(n - 1)

RECURSIVE SumHalves(_, _)
SumHalves(a, i) == IF i > Len(a) THEN 0 ELSE a[i].v + SumHalves(a, i + 1)

\* What the callable does with the argument values a: [panicked, rets].
\* The calculator functions are those of the package; the others are
\*   func Sum(n int, xs ...float64) float64   { n plus the sum of xs }
\*   func IntDiv(a, b int) int                { return a / b }
\*   func Narrow(x int8) int8                 { return x }
\*   func Echo(s string) string               { return s }
\*   func Noop()                              { }
Returned(rets) == [panicked |-> FALSE, rets |-> rets]
Panicked == [panicked |-> TRUE, rets |-> <<>>]

CalculatorBody(fn, a) ==
    CASE fn = "Add" -> Returned(<<FloatV(a[1].v + a[2].v)>>)
      [] fn = "Divide" ->
            IF a[2].v = 0
            THEN Returned(<<FloatV(0), ErrVal(ErrDivisionByZero)>>)
            ELSE Returned(<<FloatV(TruncDiv(2 * a[1].v, a[2].v)), ErrVal(0)>>)
      [] fn = "Factorial" ->
            IF a[1].v < 0
            THEN Returned(<<FloatV(0), ErrVal(ErrNegativeFactorial)>>)
            ELSE IF a[1].v > MaxFiniteFactorial
                 THEN Returned(<<FloatV(FloatInf), ErrVal(0)>>)
                 ELSE Returned(<<FloatV(2 * Product(a[1].v)), ErrVal(0)>>)

OtherBody(fn, a) ==
    CASE fn = "Sum" -> Returned(<<FloatV(2 * a[1].v + SumHalves(a, 2))>>)
      [] fn = "IntDiv" ->
            IF a[2].v = 0 THEN Panicked
            ELSE Returned(<<IntV(TruncDiv(a[1].v, a[2].v))>>)
      [] fn = "Narrow" -> Returned(<<a[1]>>)
      [] fn = "Echo" -> Returned(<<a[1]>>)
      [] fn = "Noop" -> Returned(<<>>)

\* functionValue.Call(argValues) on the callable itself
Body(fn, a) == IF fn \in CalculatorTools THEN CalculatorBody(fn, a) ELSE OtherBody(fn, a)

----------------------------------------------------------------------------
\* evaluation.Tool.Evaluate

\* the error an Evaluate call returns; sentinel "nil" is no error, sentinel
\* "callable" is the error value the callable itself returned (code)
NoError ==
    [sentinel |-> "nil", code |-> 0, pos |-> 0, elem |-> 0, expected |-> "",
     actual |-> "", want |-> 0, got |-> 0, args |-> <<>>]

\* An Evaluate call ends by returning (results, err) or by a panic leaving
\* it (escaped); called/callArgs record the call made to the callable
Outcome(results, err) ==
    [escaped |-> FALSE, results |-> results, err |-> err,
     called |-> FALSE, callArgs |-> <<>>]

EscapedPanic ==
    [escaped |-> TRUE, results |-> <<>>, err |-> NoError,
     called |-> FALSE, callArgs |-> <<>>]

\* the expected type of argument i (1-based here, i-1 in the code)
ExpectedType(fn, i) ==
    IF IsVariadic(fn) /\ i >= NumIn(fn)
    THEN Elem(ParamTypes(fn)[NumIn(fn)])
    ELSE ParamTypes(fn)[i]

\* functionType.In(i) panics when the function has no parameter i
InPanics(fn, i) == ~(IsVariadic(fn) /\ i >= NumIn(fn)) /\ i > NumIn(fn)

ConvOk(vals) == [status |-> "ok", vals |-> vals, pos |-> 0, elem |-> 0,
                 expected |-> "", actual |-> ""]
ConvErr(pos, elem, expected, actual) ==
    [status |-> "err", vals |-> <<>>, pos |-> pos, elem |-> elem,
     expected |-> expected, actual |-> actual]
ConvPanic == [status |-> "panic", vals |-> <<>>, pos |-> 0, elem |-> 0,
              expected |-> "", actual |-> ""]

\* the unpacking loop over the elements j.. of a slice argument at position i
RECURSIVE UnpackSlice(_, _, _, _, _)
UnpackSlice(sv, expected, i, j, acc) ==
    IF j > Len(sv.elems) THEN ConvOk(acc)
    ELSE LET elem == Index(sv, j) IN
         IF ~AssignableTo(elem.t, expected)
         THEN ConvErr(i, j, expected, elem.t)
         ELSE UnpackSlice(sv, expected, i, j + 1, Append(acc, elem))

\* the refusal naming the index of the loop instead of the 1-based position
ReconcileArgumentZeroBased(arg, expected, i) ==
    IF arg.t = "nil" THEN ConvPanic
    ELSE IF ~AssignableTo(arg.t, expected)
         THEN IF CanConvert(arg, expected)
              THEN ConvOk(<<Convert(arg, expected)>>)
              ELSE ConvErr(i - 1, 0, expected, arg.t)
         ELSE ConvOk(<<arg>>)

\* one argument that is not unpacked: accepted, converted or refused
ReconcileArgument(arg, expected, i) ==
    IF arg.t = "nil" THEN ConvPanic          \* Type() of the zero Value panics
    ELSE IF ~AssignableTo(arg.t, expected)
         THEN IF CanConvert(arg, expected)
              THEN ConvOk(<<Convert(arg, expected)>>)
              ELSE ConvErr(i, 0, expected, arg.t)
         ELSE ConvOk(<<arg>>)

\* the loop of convertArguments from argument i on, acc being argValues
RECURSIVE ConvertFrom(_, _, _, _)
ConvertFrom(fn, args, i, acc) ==
    IF i > Len(args) THEN ConvOk(acc)
    ELSE IF InPanics(fn, i) THEN ConvPanic
    ELSE LET expected == ExpectedType(fn, i)
             arg == args[i]
             one == IF IsVariadic(fn) /\ i >= NumIn(fn) /\ arg.t \in SliceTypes
                    THEN UnpackSlice(arg, expected, i, 1, <<>>)
                    ELSE ReconcileArgument(arg, expected, i)
         IN IF one.status = "ok"
            THEN ConvertFrom(fn, args, i + 1, acc \o one.vals)
            ELSE one

\* argValues made with make([]reflect.Value, len(args)) and then appended to:
\* the converted values follow len(args) zero Values
convertArgumentsMakeLen(args, fn) ==
    ConvertFrom(fn, args, 1, [i \in 1..Len(args) |-> NilArg])


convertArguments(args, fn) == ConvertFrom(fn, args, 1, <<>>)

\* reflect.Value.Call panics, before the callable runs, on a wrong number of
\* argument values or on one that is not assignable to its parameter
CallAccepts(fn, argValues) ==
    /\ IF IsVariadic(fn) THEN Len(argValues) >= NumIn(fn) - 1
                         ELSE Len(argValues) = NumIn(fn)
    /\ \A i \in 1..Len(argValues) : AssignableTo(argValues[i].t, ExpectedType(fn, i))

\* functionValue.Call(argValues): [panicked, rets]
Call(fn, argValues) ==
    IF CallAccepts(fn, argValues) THEN Body(fn, argValues) ELSE Panicked

\* callFunction without its deferred recover: the panic leaves the function
callFunctionNoRecover(fn, argValues) ==
    LET r == Call(fn, argValues) IN
    IF r.panicked
    THEN [err |-> FALSE, escaped |-> TRUE, results |-> <<>>]
    ELSE [err |-> FALSE, escaped |-> FALSE, results |-> r.rets]

\* callFunction: the call under recover.  err is the error built from a
\* recovered panic; escaped is a panic that leaves callFunction
callFunction(fn, argValues) ==
    LET r == Call(fn, argValues) IN
    IF r.panicked
    THEN [err |-> TRUE, escaped |-> FALSE, results |-> <<>>]
    ELSE [err |-> FALSE, escaped |-> FALSE, results |-> r.rets]

\* lastResult.Type().Implements(error)
ImplementsError(t) == t = "error"

\* extractResults that never looks for a trailing error
extractResultsKeepError(results) == Outcome(results, NoError)

\* extractResults that drops the trailing error without reporting it
extractResultsDropFailure(results) ==
    IF Len(results) = 0 THEN Outcome(<<>>, NoError)
    ELSE IF ImplementsError(results[Len(results)].t)
         THEN Outcome(SubSeq(results, 1, Len(results) - 1), NoError)
         ELSE Outcome(results, NoError)

\* extractResults
extractResults(results) ==
    IF Len(results) = 0 THEN Outcome(<<>>, NoError)
    ELSE LET lastResult == results[Len(results)] IN
         IF ImplementsError(lastResult.t)
         THEN IF lastResult.v # 0
              THEN Outcome(SubSeq(results, 1, Len(results) - 1),
                           [NoError EXCEPT !.sentinel = "callable", !.code = lastResult.v])
              ELSE Outcome(SubSeq(results, 1, Len(results) - 1), NoError)
         ELSE Outcome(results, NoError)

\* an arity check that refuses only too few arguments
CountMismatchTooFewOnly(fn, n) ==
    IF IsVariadic(fn) THEN n < NumIn(fn) - 1 ELSE n < NumIn(fn)

\* an arity check that knows no variadic functions
CountMismatchExact(fn, n) == n # NumIn(fn)

\* the arity check of Evaluate: TRUE when the count is refused
CountMismatch(fn, n) ==
    IF IsVariadic(fn) THEN n < NumIn(fn) - 1 ELSE n # NumIn(fn)

Evaluate(fn, args) ==
    IF ~IsFunc(fn)
    THEN Outcome(<<>>, [NoError EXCEPT !.sentinel = "ErrNotAFunction"])
    ELSE IF CountMismatch(fn, Len(args))
    THEN Outcome(<<>>, [NoError EXCEPT !.sentinel = "ErrArgumentMismatch",
                           !.want = IF IsVariadic(fn) THEN NumIn(fn) - 1 ELSE NumIn(fn),
                           !.got = Len(args)])
    ELSE LET c == convertArguments(args, fn) IN
         IF c.status = "panic" THEN EscapedPanic
         ELSE IF c.status = "err"
         THEN Outcome(<<>>, [NoError EXCEPT !.sentinel = "ErrArgumentType",
                                !.pos = c.pos, !.elem = c.elem,
                                !.expected = c.expected, !.actual = c.actual])
         ELSE LET r == callFunction(fn, c.vals) IN
              IF r.escaped
              THEN [EscapedPanic EXCEPT !.called = TRUE, !.callArgs = c.vals]
              ELSE IF r.err
              THEN [Outcome(<<>>, [NoError EXCEPT !.sentinel = "ErrFunctionPanic",
                                      !.args = c.vals])
                       EXCEPT !.called = TRUE, !.callArgs = c.vals]
              ELSE [extractResults(r.results)
                       EXCEPT !.called = TRUE, !.callArgs = c.vals]

----------------------------------------------------------------------------
\* toolstore.ToolStore

\* the names tools are registered under, and the tools registered
RegNames == {"Add", "Divide", "Factorial"}
RegTools == {"Add", "Divide"}

\* make(map[string]evaluation.Tool)
EmptyMap == [n \in {} |-> NotFunc]

\* ts.tools[name] = tool
MapPut(m, name, tool) == [n \in DOMAIN m \cup {name} |-> IF n = name THEN tool ELSE m[n]]

\* delete(ts.tools, name)
MapDelete(m, name) == [n \in DOMAIN m \ {name} |-> m[n]]

\* the orders in which a range over the map can visit its keys
KeyOrders(m) ==
    {o \in [1..Cardinality(DOMAIN m) -> DOMAIN m] :
        \A i, j \in DOMAIN o : i # j => o[i] # o[j]}

\* a method call that has returned: err is "nil" or the name of the error,
\* got the tool of GetTool, names the slice of ListToolNames, map the map of
\* Tools, before the map as it was when the call began
OpRecord(op, name, tool, err, got, names, m, before) ==
    [op |-> op, name |-> name, tool |-> tool, err |-> err, got |-> got,
     names |-> names, map |-> m, before |-> before]

NoOp == OpRecord("none", "", "", "nil", "", <<>>, EmptyMap, EmptyMap)

\* the store methods, each run to its end by a single caller: what the call
\* makes of the map m, as [map, op]

\* AddTool with the check for the name left out: the entry is overwritten
AddToolOverwrite(m, name, tool) ==
    [map |-> MapPut(m, name, tool),
     op |-> OpRecord("AddTool", name, tool, "nil", "", <<>>, EmptyMap, m)]

AddToolOn(m, name, tool) ==
    IF name \in DOMAIN m
    THEN [map |-> m,
          op |-> OpRecord("AddTool", name, tool, "ErrToolExists", "", <<>>, EmptyMap, m)]
    ELSE [map |-> MapPut(m, name, tool),
          op |-> OpRecord("AddTool", name, tool, "nil", "", <<>>, EmptyMap, m)]

GetToolOn(m, name) ==
    IF name \notin DOMAIN m
    THEN [map |-> m,
          op |-> OpRecord("GetTool", name, "", "ErrToolNotFound", "", <<>>, EmptyMap, m)]
    ELSE [map |-> m,
          op |-> OpRecord("GetTool", name, "", "nil", m[name], <<>>, EmptyMap, m)]

\* RemoveTool that reports success and leaves the entry in the map
RemoveToolOnKeepEntry(m, name) ==
    IF name \notin DOMAIN m
    THEN [map |-> m,
          op |-> OpRecord("RemoveTool", name, "", "ErrToolNotFound", "", <<>>, EmptyMap, m)]
    ELSE [map |-> m,
          op |-> OpRecord("RemoveTool", name, "", "nil", "", <<>>, EmptyMap, m)]

RemoveToolOn(m, name) ==
    IF name \notin DOMAIN m
    THEN [map |-> m,
          op |-> OpRecord("RemoveTool", name, "", "ErrToolNotFound", "", <<>>, EmptyMap, m)]
    ELSE [map |-> MapDelete(m, name),
          op |-> OpRecord("RemoveTool", name, "", "nil", "", <<>>, EmptyMap, m)]

ListToolNamesOn(m, order) ==
    [map |-> m, op |-> OpRecord("ListToolNames", "", "", "nil", "", order, EmptyMap, m)]

ToolsOn(m) ==
    [map |-> m, op |-> OpRecord("Tools", "", "", "nil", "", <<>>, m, m)]

\* the registrations in force after a call: a successful AddTool of a name
\* enters its tool, a successful RemoveTool takes the name out
Registrations(reg, op) ==
    IF op.op = "AddTool" /\ op.err = "nil" /\ op.name \notin DOMAIN reg
    THEN MapPut(reg, op.name, op.tool)
    ELSE IF op.op = "RemoveTool" /\ op.err = "nil"
         THEN MapDelete(reg, op.name)
         ELSE reg

Returns(r) ==
    /\ tools' = r.map
    /\ lastOp' = r.op
    /\ firstReg' = Registrations(firstReg, r.op)

AddTool(name, tool) == Returns(AddToolOn(tools, name, tool)) /\ UNCHANGED <<evars, rvars, gvars, avars, lvars, pvars>>

GetTool(name) == Returns(GetToolOn(tools, name)) /\ UNCHANGED <<evars, rvars, gvars, avars, lvars, pvars>>

RemoveTool(name) == Returns(RemoveToolOn(tools, name)) /\ UNCHANGED <<evars, rvars, gvars, avars, lvars, pvars>>

ListToolNames ==
    /\ \E order \in KeyOrders(tools) : Returns(ListToolNamesOn(tools, order))
    /\ UNCHANGED <<evars, rvars, gvars, avars, lvars, pvars>>

Tools == Returns(ToolsOn(tools)) /\ UNCHANGED <<evars, rvars, gvars, avars, lvars, pvars>>

----------------------------------------------------------------------------
\* toolstore.NewFunctionStoreFromPkg

\* the logger argument: nil, or a logger
Loggers == {"nil", "logger"}

\* the function maps a package hands over: some names, each with its function
FuncMaps == UNION {[D -> RegTools] : D \in SUBSET RegNames}

\* NewToolStore(logger): an empty map, and the default logger for a nil one
NewToolStore(logger) ==
    [tools |-> EmptyMap, logger |-> IF logger = "nil" THEN "default" ELSE logger]

\* what a NewFunctionStoreFromPkg call gave back: hasStore tells a store from
\* a nil pointer, err is "nil" or the name of the wrapped error, failed the
\* function whose metadata was not extracted, panicked a call that did not
\* return
PkgResult(hasStore, store, err, failed, panicked) ==
    [hasStore |-> hasStore, store |-> store, err |-> err, failed |-> failed,
     panicked |-> panicked]

\* the loop over funcMap from the names still to visit: failing holds the
\* names metadata.ExtractMetadata fails for; logger.Error is called on the
\* logger argument, not on the logger of the store, and the result of
\* AddTool is dropped
RECURSIVE PopulateStore(_, _, _, _, _)
PopulateStore(store, order, funcMap, failing, logger) ==
    IF order = <<>>
    THEN PkgResult(TRUE, store.tools, "nil", "", FALSE)
    ELSE LET functionName == Head(order) IN
         IF functionName \in failing
         THEN IF logger = "nil"
              THEN PkgResult(FALSE, EmptyMap, "none", functionName, TRUE)
              ELSE PkgResult(FALSE, EmptyMap, "ErrMetadataExtraction", functionName, FALSE)
         ELSE PopulateStore(
                  [store EXCEPT !.tools = AddToolOn(store.tools, functionName,
                                                    funcMap[functionName]).map],
                  Tail(order), funcMap, failing, logger)

NewFunctionStoreFromPkgOn(funcMap, failing, logger, order) ==
    PopulateStore(NewToolStore(logger), order, funcMap, failing, logger)

NoPkg ==
    [called |-> FALSE, funcMap |-> EmptyMap, failing |-> {}, logger |-> "nil",
     ret |-> PkgResult(FALSE, EmptyMap, "none", "", FALSE)]

\* the caller builds its store from a package
NewFunctionStoreFromPkg(funcMap, failing, logger) ==
    /\ ~pkgRet.called
    /\ \E order \in KeyOrders(funcMap) :
          LET r == NewFunctionStoreFromPkgOn(funcMap, failing, logger, order) IN
          /\ pkgRet' = [called |-> TRUE, funcMap |-> funcMap, failing |-> failing,
                        logger |-> logger, ret |-> r]
          /\ tools' = r.store
          /\ firstReg' = r.store
    /\ UNCHANGED <<lastOp, evars, rvars, gvars, avars, lvars>>

\* the caller that got a store looks a tool up in it, as the demos do
PkgGetTool(name) == pkgRet.called /\ pkgRet.ret.hasStore /\ GetTool(name)

\* the caller that got a store lists its names
PkgListToolNames == pkgRet.called /\ pkgRet.ret.hasStore /\ ListToolNames

PkgNext ==
    \/ \E funcMap \in FuncMaps, logger \in Loggers :
          \E failing \in SUBSET DOMAIN funcMap :
             NewFunctionStoreFromPkg(funcMap, failing, logger)
    \/ \E name \in RegNames : PkgGetTool(name)
    \/ PkgListToolNames

----------------------------------------------------------------------------
\* The store called from several goroutines.  Its methods take no lock, so
\* their map accesses interleave: a method is one step per map access, and a
\* write of the map is two, its begin and its end.

\* the goroutines calling the store
NumThreads == 2
Threads == 1..NumThreads

\* the calls one goroutine makes
MaxOps == 2

NoCall == [op |-> "none", name |-> "", tool |-> ""]

\* goroutine t calls a method of the store
Begin(t, op, name, tool) ==
    /\ ~crashed
    /\ pc[t] = "idle"
    /\ nops[t] < MaxOps
    /\ nops' = [nops EXCEPT ![t] = @ + 1]
    /\ call' = [call EXCEPT ![t] = [op |-> op, name |-> name, tool |-> tool]]
    /\ ret' = [ret EXCEPT ![t] = "none"]
    /\ pc' = [pc EXCEPT ![t] =
                 CASE op = "AddTool" -> "AddTool_check"
                   [] op = "RemoveTool" -> "RemoveTool_check"
                   [] op = "GetTool" -> "GetTool_read"
                   [] op = "ListToolNames" -> "ListToolNames_range"]
    /\ UNCHANGED <<tools, inWrite, raceSeen, crashed, regCount, lastOp, firstReg, evars, gvars, avars, lvars, pvars>>

BeginAddTool(t) == \E name \in RegNames, tool \in RegTools : Begin(t, "AddTool", name, tool)
BeginRemoveTool(t) == \E name \in RegNames : Begin(t, "RemoveTool", name, "")
BeginGetTool(t) == \E name \in RegNames : Begin(t, "GetTool", name, "")
BeginListToolNames(t) == Begin(t, "ListToolNames", "", "")

\* goroutine t returns err from its call
Return(t, err) ==
    /\ pc' = [pc EXCEPT ![t] = "idle"]
    /\ ret' = [ret EXCEPT ![t] = err]

\* A read of the map by goroutine t (the lookups of AddTool, GetTool and
\* RemoveTool, the range of ListToolNames).  While another goroutine is
\* inside a write the access is a data race: the runtime may stop the
\* process (fatal error: concurrent map read and map write) or not notice.
MapRead(t) ==
    /\ ~crashed
    /\ pc[t] \in {"AddTool_check", "RemoveTool_check", "GetTool_read", "ListToolNames_range"}
    /\ raceSeen' = (raceSeen \/ inWrite # {})
    /\ \/ /\ pc[t] = "AddTool_check"
          /\ IF call[t].name \in DOMAIN tools
             THEN Return(t, "ErrToolExists")
             ELSE pc' = [pc EXCEPT ![t] = "AddTool_write"] /\ UNCHANGED ret
       \/ /\ pc[t] = "RemoveTool_check"
          /\ IF call[t].name \notin DOMAIN tools
             THEN Return(t, "ErrToolNotFound")
             ELSE pc' = [pc EXCEPT ![t] = "RemoveTool_delete"] /\ UNCHANGED ret
       \/ /\ pc[t] = "GetTool_read"
          /\ Return(t, IF call[t].name \in DOMAIN tools THEN "nil" ELSE "ErrToolNotFound")
       \/ /\ pc[t] = "ListToolNames_range"
          /\ Return(t, "nil")
    /\ UNCHANGED <<tools, call, nops, inWrite, crashed, regCount, lastOp, firstReg, evars, gvars, avars, lvars, pvars>>

\* goroutine t enters its write of the map (ts.tools[name] = tool, delete)
MapWriteBegin(t) ==
    /\ ~crashed
    /\ pc[t] \in {"AddTool_write", "RemoveTool_delete"}
    /\ raceSeen' = (raceSeen \/ inWrite # {})
    /\ inWrite' = inWrite \cup {t}
    /\ pc' = [pc EXCEPT ![t] = IF pc[t] = "AddTool_write" THEN "AddTool_writing"
                                                         ELSE "RemoveTool_deleting"]
    /\ UNCHANGED <<tools, call, ret, nops, crashed, regCount, lastOp, firstReg, evars, gvars, avars, lvars, pvars>>

\* goroutine t ends its write of the map and returns nil
MapWriteEnd(t) ==
    /\ ~crashed
    /\ pc[t] \in {"AddTool_writing", "RemoveTool_deleting"}
    /\ inWrite' = inWrite \ {t}
    /\ IF pc[t] = "AddTool_writing"
       THEN /\ tools' = MapPut(tools, call[t].name, call[t].tool)
            /\ regCount' = [regCount EXCEPT ![call[t].name] = @ + 1]
       ELSE /\ tools' = MapDelete(tools, call[t].name)
            /\ regCount' = [regCount EXCEPT ![call[t].name] = @ - 1]
    /\ Return(t, "nil")
    /\ UNCHANGED <<call, nops, raceSeen, crashed, lastOp, firstReg, evars, gvars, avars, lvars, pvars>>

\* the runtime notices a map access that overlaps a write and stops the process
ConcurrentMapFault ==
    /\ ~crashed
    /\ \E t \in Threads, w \in inWrite :
          /\ t # w
          /\ pc[t] \in {"AddTool_check", "RemoveTool_check", "GetTool_read",
                        "ListToolNames_range", "AddTool_write", "RemoveTool_delete"}
    /\ crashed' = TRUE
    /\ raceSeen' = TRUE
    /\ UNCHANGED <<tools, pc, call, ret, nops, inWrite, regCount, lastOp, firstReg, evars, gvars, avars, lvars, pvars>>

RaceNext ==
    \/ \E t \in Threads : BeginAddTool(t)
    \/ \E t \in Threads : BeginRemoveTool(t)
    \/ \E t \in Threads : BeginGetTool(t)
    \/ \E t \in Threads : BeginListToolNames(t)
    \/ \E t \in Threads : MapRead(t)
    \/ \E t \in Threads : MapWriteBegin(t)
    \/ \E t \in Threads : MapWriteEnd(t)
    \/ ConcurrentMapFault

----------------------------------------------------------------------------
\* llm.OllamaEngine: cancelable streaming generation.
\*
\* The statements between o.mu.Lock() and o.mu.Unlock() are one step each.
\* The model backend (o.client.Call) is a collaborator: it hands the
\* fragments of its response to the streaming callback one by one and then
\* returns, or returns an error at any point.  The j-th fragment of a
\* response is written j.

\* the prompts generation is started and stopped under
Prompts == {"p1", "p2"}

\* GenerateTokens calls made in one run
MaxSessions == 2

\* the fragments the response of the backend has
MaxFragments == 3

\* cap(tokenChan): 100 in the code, scaled down
ChanCap == 1

\* the fragments a backend still hands to the callback after its context has
\* been cancelled, before it returns
MaxLate == 1

\* make(map[string]context.CancelFunc)
NoTasks == [k \in {} |-> 0]

NoSessions == [s \in {} |-> 0]

NoStop == [key |-> "", err |-> "none"]

\* o.mu unlocked, held by the caller of the engine, held by the goroutine of
\* session s
MuFree == <<"free", 0>>
MuCaller == <<"caller", 0>>
MuGoroutine(s) == <<"goroutine", s>>

\* the session a GenerateTokens call starts: its context not cancelled, its
\* channel empty and open, its goroutine about to call the backend
NewSession(key) ==
    [key |-> key,           \* the prompt
     gpc |-> "call",        \* the goroutine: "call", "callback", "delete", "close", "done"
     cancelled |-> FALSE,   \* ctx.Err() != nil
     produced |-> 0,        \* the fragments the backend has handed to the callback
     late |-> 0,            \* those of them handed over after the cancellation
     pendingLate |-> FALSE, \* the fragment in the callback was handed over after it
     lateSent |-> 0,        \* the late fragments the callback has sent on tokenChan
     sentAfter |-> 0,       \* the sends on tokenChan made after the cancellation
     chan |-> <<>>,         \* the buffer of tokenChan
     closed |-> FALSE,      \* tokenChan is closed
     received |-> <<>>,     \* what the consumer has received from tokenChan
     eof |-> FALSE,         \* the consumer has seen tokenChan closed
     result |-> "none",     \* what o.client.Call returned: "nil", "error", "ctx"
     logged |-> FALSE]      \* the error has been written to the log

Sessions == DOMAIN sess

\* a GenerateTokens that invokes the cancel it finds under the prompt before
\* it stores the new one
StartSessionCancelsPrevious(key) ==
    /\ nsess < MaxSessions
    /\ nsess' = nsess + 1
    /\ activeTasks' = MapPut(activeTasks, key, nsess + 1)
    /\ sess' = [s \in Sessions \cup {nsess + 1} |->
                   IF s = nsess + 1 THEN NewSession(key)
                   ELSE IF key \in DOMAIN activeTasks /\ activeTasks[key] = s
                        THEN [sess[s] EXCEPT !.cancelled = TRUE]
                        ELSE sess[s]]
    /\ UNCHANGED stopRet

\* GenerateTokens(ctx, prompt): the cancel of the new session is stored under
\* the prompt, over whatever was stored there, and the goroutine is started
StartSession(key) ==
    /\ nsess < MaxSessions
    /\ nsess' = nsess + 1
    /\ activeTasks' = MapPut(activeTasks, key, nsess + 1)
    /\ sess' = [s \in Sessions \cup {nsess + 1} |->
                   IF s = nsess + 1 THEN NewSession(key) ELSE sess[s]]
    /\ UNCHANGED stopRet

GenerateTokens(key) == StartSession(key) /\ UNCHANGED <<evars, svars, rvars, avars, lvars, pvars>>

\* StopGeneration that closes the channel of the session it cancels
StopGenerationOnClosesChannel(tasks, ss, key) ==
    IF key \notin DOMAIN tasks
    THEN [tasks |-> tasks, sess |-> ss, err |-> "NotFound"]
    ELSE [tasks |-> MapDelete(tasks, key),
          sess |-> [ss EXCEPT ![tasks[key]].cancelled = TRUE,
                              ![tasks[key]].closed = TRUE],
          err |-> "nil"]

\* StopGeneration that cancels and leaves the entry in the table
StopGenerationOnKeepEntry(tasks, ss, key) ==
    IF key \notin DOMAIN tasks
    THEN [tasks |-> tasks, sess |-> ss, err |-> "NotFound"]
    ELSE [tasks |-> tasks,
          sess |-> [ss EXCEPT ![tasks[key]].cancelled = TRUE],
          err |-> "nil"]

\* StopGeneration(ctx, prompt) on the table tasks and the sessions ss
StopGenerationOn(tasks, ss, key) ==
    IF key \notin DOMAIN tasks
    THEN [tasks |-> tasks, sess |-> ss, err |-> "NotFound"]
    ELSE [tasks |-> MapDelete(tasks, key),
          sess |-> [ss EXCEPT ![tasks[key]].cancelled = TRUE],
          err |-> "nil"]

StopGeneration(key) ==
    LET r == StopGenerationOn(activeTasks, sess, key) IN
    /\ activeTasks' = r.tasks
    /\ sess' = r.sess
    /\ stopRet' = [key |-> key, err |-> r.err]
    /\ UNCHANGED <<nsess, evars, svars, rvars, avars, lvars, pvars>>

\* the backend hands its next fragment to the streaming callback
BackendFragment(s) ==
    /\ sess[s].gpc = "call"
    /\ sess[s].produced < MaxFragments
    /\ sess[s].cancelled => sess[s].late < MaxLate
    /\ sess' = [sess EXCEPT ![s].gpc = "callback",
                            ![s].produced = @ + 1,
                            ![s].pendingLate = sess[s].cancelled,
                            ![s].late = IF sess[s].cancelled THEN @ + 1 ELSE @]
    /\ UNCHANGED <<activeTasks, nsess, stopRet, evars, svars, rvars, avars, lvars, pvars>>

\* the send case of the callback's select, taken whether or not the buffer
\* has room: a fragment that finds it full is lost
CallbackSendOrDrop(s) ==
    /\ sess[s].gpc = "callback"
    /\ sess' = [sess EXCEPT ![s].gpc = "call",
                            ![s].chan = IF Len(@) < ChanCap
                                        THEN Append(@, sess[s].produced) ELSE @]
    /\ UNCHANGED <<activeTasks, nsess, stopRet, evars, svars, rvars, avars, lvars, pvars>>

\* the callback's select takes the case tokenChan <- string(chunk): open to
\* it while the buffer has room, whatever the state of the context
CallbackSend(s) ==
    /\ sess[s].gpc = "callback"
    /\ Len(sess[s].chan) < ChanCap
    /\ sess' = [sess EXCEPT ![s].gpc = "call",
                            ![s].chan = Append(@, sess[s].produced),
                            ![s].lateSent = IF sess[s].pendingLate THEN @ + 1 ELSE @,
                            ![s].sentAfter = IF sess[s].cancelled THEN @ + 1 ELSE @]
    /\ UNCHANGED <<activeTasks, nsess, stopRet, evars, svars, rvars, avars, lvars, pvars>>

\* a callback without the case <-ctx.Done(): it only sends
CallbackCancelledNever(s) ==
    /\ sess[s].gpc = "callback"
    /\ FALSE
    /\ UNCHANGED vars

\* the callback's select takes the case <-ctx.Done() and returns ctx.Err(),
\* with which the backend call returns
CallbackCancelled(s) ==
    /\ sess[s].gpc = "callback"
    /\ sess[s].cancelled
    /\ sess' = [sess EXCEPT ![s].gpc = "delete", ![s].result = "ctx"]
    /\ UNCHANGED <<activeTasks, nsess, stopRet, evars, svars, rvars, avars, lvars, pvars>>

\* o.client.Call returns r: nil after the whole response, an error of the
\* backend at any point, the context's error once it is cancelled; an error
\* is logged when the context is not cancelled
BackendReturn(s, r) ==
    /\ sess[s].gpc = "call"
    /\ r = "nil" => sess[s].produced = MaxFragments
    /\ r = "error" => ~sess[s].cancelled
    /\ r = "ctx" => sess[s].cancelled
    /\ sess' = [sess EXCEPT ![s].gpc = "delete",
                            ![s].result = r,
                            ![s].logged = (r # "nil" /\ ~sess[s].cancelled)]
    /\ UNCHANGED <<activeTasks, nsess, stopRet, evars, svars, rvars, avars, lvars, pvars>>

\* the deferred function: delete(o.activeTasks, prompt) under the lock
GoroutineDelete(s) ==
    /\ sess[s].gpc = "delete"
    /\ activeTasks' = MapDelete(activeTasks, sess[s].key)
    /\ sess' = [sess EXCEPT ![s].gpc = "close"]
    /\ UNCHANGED <<nsess, stopRet, evars, svars, rvars, avars, lvars, pvars>>

\* close(tokenChan) as the last statement of the goroutine, reached only
\* when the backend call returned no error
GoroutineCloseUnlessError(s) ==
    /\ sess[s].gpc = "close"
    /\ sess' = [sess EXCEPT ![s].gpc = "done", ![s].closed = (sess[s].result = "nil")]
    /\ UNCHANGED <<activeTasks, nsess, stopRet, evars, svars, rvars, avars, lvars, pvars>>

\* the deferred close(tokenChan)
GoroutineClose(s) ==
    /\ sess[s].gpc = "close"
    /\ sess' = [sess EXCEPT ![s].gpc = "done", ![s].closed = TRUE]
    /\ UNCHANGED <<activeTasks, nsess, stopRet, evars, svars, rvars, avars, lvars, pvars>>

\* the consumer receives from tokenChan (for token := range tokenCh)
ConsumerReceive(s) ==
    /\ sess[s].chan # <<>>
    /\ sess' = [sess EXCEPT ![s].received = Append(@, Head(sess[s].chan)),
                            ![s].chan = Tail(@)]
    /\ UNCHANGED <<activeTasks, nsess, stopRet, evars, svars, rvars, avars, lvars, pvars>>

\* the consumer finds tokenChan closed and empty: its range loop ends
ConsumerEnd(s) ==
    /\ sess[s].chan = <<>>
    /\ sess[s].closed
    /\ ~sess[s].eof
    /\ sess' = [sess EXCEPT ![s].eof = TRUE]
    /\ UNCHANGED <<activeTasks, nsess, stopRet, evars, svars, rvars, avars, lvars, pvars>>

\* a caller that starts one generation only
GenerateOnce(key) == Sessions = {} /\ GenerateTokens(key)

\* the deferred calls of the goroutine of session s, run when it ends
GoroutineExit(s) == s \in Sessions /\ (GoroutineDelete(s) \/ GoroutineClose(s))

\* a step of the backend call of a session whose context is cancelled
CancelledStep(s) ==
    /\ s \in Sessions
    /\ sess[s].cancelled
    /\ \/ BackendFragment(s)
       \/ CallbackSend(s)
       \/ CallbackCancelled(s)
       \/ BackendReturn(s, "ctx")

\* a step of a consumer that ranges over the channel of session s
ConsumerStep(s) == s \in Sessions /\ (ConsumerReceive(s) \/ ConsumerEnd(s))

\* one generation, its caller and the consumer of its channel
StreamNext ==
    \/ \E key \in Prompts : GenerateOnce(key)
    \/ \E key \in Prompts : StopGeneration(key)
    \/ \E s \in Sessions : BackendFragment(s)
    \/ \E s \in Sessions : CallbackSend(s)
    \/ \E s \in Sessions : CallbackCancelled(s)
    \/ \E s \in Sessions, r \in {"nil", "error", "ctx"} : BackendReturn(s, r)
    \/ \E s \in Sessions : GoroutineDelete(s)
    \/ \E s \in Sessions : GoroutineClose(s)
    \/ \E s \in Sessions : ConsumerReceive(s)
    \/ \E s \in Sessions : ConsumerEnd(s)

EngineNext ==
    \/ \E key \in Prompts : GenerateTokens(key)
    \/ \E key \in Prompts : StopGeneration(key)
    \/ \E s \in Sessions : BackendFragment(s)
    \/ \E s \in Sessions : CallbackSend(s)
    \/ \E s \in Sessions : CallbackCancelled(s)
    \/ \E s \in Sessions, r \in {"nil", "error", "ctx"} : BackendReturn(s, r)
    \/ \E s \in Sessions : GoroutineDelete(s)
    \/ \E s \in Sessions : GoroutineClose(s)
    \/ \E s \in Sessions : ConsumerReceive(s)
    \/ \E s \in Sessions : ConsumerEnd(s)

----------------------------------------------------------------------------
\* The engine with its lock spelled out: o.mu.Lock() is a step of its own,
\* which waits while the lock is held, and the statements up to
\* o.mu.Unlock() are the next step.

\* the caller enters GenerateTokens(ctx, key), about to take the lock
GenerateTokensCall(key) ==
    /\ cpc = "idle"
    /\ nsess < MaxSessions
    /\ cpc' = "gen_lock"
    /\ ckey' = key
    /\ UNCHANGED <<mu, gvars, evars, svars, rvars, avars, pvars>>

\* a caller that starts one generation only
GenerateOnceCall(key) == Sessions = {} /\ GenerateTokensCall(key)

\* the caller enters StopGeneration(ctx, key), about to take the lock
StopGenerationCall(key) ==
    /\ cpc = "idle"
    /\ cpc' = "stop_lock"
    /\ ckey' = key
    /\ UNCHANGED <<mu, gvars, evars, svars, rvars, avars, pvars>>

\* o.mu.Lock() of the caller returns
CallerLock ==
    /\ cpc \in {"gen_lock", "stop_lock"}
    /\ mu = MuFree
    /\ mu' = MuCaller
    /\ cpc' = IF cpc = "gen_lock" THEN "gen_locked" ELSE "stop_locked"
    /\ UNCHANGED <<ckey, gvars, evars, svars, rvars, avars, pvars>>

\* GenerateTokens that leaves the lock to the goroutine it starts, which
\* holds it while it calls the backend
GenerateTokensLockedHandsLock ==
    /\ cpc = "gen_locked"
    /\ StartSession(ckey)
    /\ mu' = MuGoroutine(nsess + 1)
    /\ cpc' = "idle"
    /\ UNCHANGED <<ckey, evars, svars, rvars, avars, pvars>>

\* GenerateTokens under the lock: the cancel is stored, the lock released,
\* the channel made and the goroutine started
GenerateTokensLocked ==
    /\ cpc = "gen_locked"
    /\ StartSession(ckey)
    /\ mu' = MuFree
    /\ cpc' = "idle"
    /\ UNCHANGED <<ckey, evars, svars, rvars, avars, pvars>>

\* StopGeneration under the lock, which its deferred Unlock releases
StopGenerationLocked ==
    LET r == StopGenerationOn(activeTasks, sess, ckey) IN
    /\ cpc = "stop_locked"
    /\ activeTasks' = r.tasks
    /\ sess' = r.sess
    /\ stopRet' = [key |-> ckey, err |-> r.err]
    /\ mu' = MuFree
    /\ cpc' = "idle"
    /\ UNCHANGED <<ckey, nsess, evars, svars, rvars, avars, pvars>>

\* the two defers in the other order: the goroutine closes tokenChan and
\* only then locks to delete its entry
GoroutineLockAfterClose(s) ==
    /\ sess[s].gpc = "delete"
    /\ mu = MuFree
    /\ mu' = MuGoroutine(s)
    /\ sess' = [sess EXCEPT ![s].gpc = "deleting", ![s].closed = TRUE]
    /\ UNCHANGED <<cpc, ckey, activeTasks, nsess, stopRet, evars, svars, rvars, avars, pvars>>

\* o.mu.Lock() of the deferred function of goroutine s returns
GoroutineLock(s) ==
    /\ sess[s].gpc = "delete"
    /\ mu = MuFree
    /\ mu' = MuGoroutine(s)
    /\ sess' = [sess EXCEPT ![s].gpc = "deleting"]
    /\ UNCHANGED <<cpc, ckey, activeTasks, nsess, stopRet, evars, svars, rvars, avars, pvars>>

\* the deferred function under the lock: delete, Unlock
GoroutineDeleteLocked(s) ==
    /\ sess[s].gpc = "deleting"
    /\ activeTasks' = MapDelete(activeTasks, sess[s].key)
    /\ sess' = [sess EXCEPT ![s].gpc = "close"]
    /\ mu' = MuFree
    /\ UNCHANGED <<cpc, ckey, nsess, stopRet, evars, svars, rvars, avars, pvars>>

\* a step that takes the lock or runs under it
LockStep ==
    \/ CallerLock
    \/ GenerateTokensLocked
    \/ StopGenerationLocked
    \/ \E s \in 1..MaxSessions : s \in Sessions /\ GoroutineLock(s)
    \/ \E s \in 1..MaxSessions : s \in Sessions /\ GoroutineDeleteLocked(s)

\* one generation, its caller and the consumer of its channel
LockNext ==
    \/ \E key \in Prompts : GenerateOnceCall(key)
    \/ \E key \in Prompts : StopGenerationCall(key)
    \/ CallerLock
    \/ GenerateTokensLocked
    \/ StopGenerationLocked
    \/ \E s \in Sessions : GoroutineLock(s)
    \/ \E s \in Sessions : GoroutineDeleteLocked(s)
    \/ \E s \in Sessions : BackendFragment(s)
    \/ \E s \in Sessions : CallbackSend(s)
    \/ \E s \in Sessions : CallbackCancelled(s)
    \/ \E s \in Sessions, r \in {"nil", "error", "ctx"} : BackendReturn(s, r)
    \/ \E s \in Sessions : GoroutineClose(s)
    \/ \E s \in Sessions : ConsumerReceive(s)
    \/ \E s \in Sessions : ConsumerEnd(s)

----------------------------------------------------------------------------
\* A caller that makes Evaluate calls one after the other

ArgValues ==
    {IntV(0), IntV(3), IntV(200), FloatV(0), FloatV(5), FloatV(20), StrV(1), NilArg,
     SliceVal("[]float64", <<FloatV(3), FloatV(5)>>),
     SliceVal("[]any", <<FloatV(3)>>)}

ArgSeqs == UNION {[1..n -> ArgValues] : n \in 0..MaxArgs}

Requests == [tool : ToolNames, args : ArgSeqs]

\* the calls made after the first one
FollowUps ==
    {[tool |-> "Divide", args |-> <<FloatV(20), FloatV(4)>>],
     [tool |-> "Add", args |-> <<IntV(3), FloatV(5)>>],
     [tool |-> "IntDiv", args |-> <<IntV(3), IntV(0)>>],
     [tool |-> "Sum", args |-> <<IntV(3)>>]}

NoOutcome == [Outcome(<<>>, NoError) EXCEPT !.err.sentinel = "none"]

\* a fresh store that no goroutine is using
NoRegistrations == [n \in RegNames |-> 0]
AllIdle == [t \in Threads |-> "idle"]
NoCalls == [t \in Threads |-> NoCall]
NoReturns == [t \in Threads |-> "none"]
NoOps == [t \in Threads |-> 0]

\* no Evaluate call is made
NoRequest == [tool |-> NotFunc, args |-> <<>>]

\* Execute has not been called: no reply of the model, nothing returned
NoReply == [wellFormed |-> FALSE, call |-> NoRequest]

\* an error Execute returns: the stage it comes from, whether the error of
\* that stage is in it (wrapped with %w or returned itself), and whether its
\* text names the stage
ExecError(stage, verbatim, context) ==
    [stage |-> stage, verbatim |-> verbatim, context |-> context]

NoExecError == ExecError("none", FALSE, FALSE)

\* what Execute returns: results and error, with the outcome of Evaluate
\* when it was called and the stages that ran
ExecResult(results, err, invoked, out, stages) ==
    [results |-> results, err |-> err, invoked |-> invoked, outcome |-> out,
     stages |-> stages]

NoExec == ExecResult(<<>>, NoExecError, FALSE, NoOutcome, <<>>)

\* a caller about to make its first Evaluate call, the store left alone
EvalInit ==
    /\ req \in Requests
    /\ outcome = NoOutcome
    /\ prev = NoOutcome
    /\ epc = "call"
    /\ ncalls = 0
    /\ tools = EmptyMap
    /\ lastOp = NoOp
    /\ pkgRet = NoPkg
    /\ firstReg = EmptyMap
    /\ pc = AllIdle
    /\ call = NoCalls
    /\ ret = NoReturns
    /\ nops = NoOps
    /\ inWrite = {}
    /\ raceSeen = FALSE
    /\ crashed = FALSE
    /\ regCount = NoRegistrations
    /\ activeTasks = NoTasks
    /\ sess = NoSessions
    /\ nsess = 0
    /\ stopRet = NoStop
    /\ mu = MuFree
    /\ cpc = "idle"
    /\ ckey = ""
    /\ apc = "idle"
    /\ llmReply = NoReply
    /\ execRet = NoExec

\* NewToolStore: the empty store, nothing evaluated
Init ==
    /\ tools = EmptyMap
    /\ lastOp = NoOp
    /\ pkgRet = NoPkg
    /\ firstReg = EmptyMap
    /\ req = NoRequest
    /\ outcome = NoOutcome
    /\ prev = NoOutcome
    /\ epc = "idle"
    /\ ncalls = 0
    /\ pc = AllIdle
    /\ call = NoCalls
    /\ ret = NoReturns
    /\ nops = NoOps
    /\ inWrite = {}
    /\ raceSeen = FALSE
    /\ crashed = FALSE
    /\ regCount = NoRegistrations
    /\ activeTasks = NoTasks
    /\ sess = NoSessions
    /\ nsess = 0
    /\ stopRet = NoStop
    /\ mu = MuFree
    /\ cpc = "idle"
    /\ ckey = ""
    /\ apc = "idle"
    /\ llmReply = NoReply
    /\ execRet = NoExec

\* the caller runs t.Evaluate(args); a panic that leaves Evaluate ends the process
EvaluateCall ==
    /\ epc = "call"
    /\ outcome' = Evaluate(req.tool, req.args)
    /\ prev' = outcome
    /\ epc' = IF outcome'.escaped THEN "dead" ELSE "ret"
    /\ UNCHANGED <<req, ncalls, svars, rvars, gvars, avars, lvars, pvars>>

\* the caller goes on to its next call
NextCall(r) ==
    /\ epc = "ret"
    /\ ncalls < MaxCalls
    /\ req' = r
    /\ epc' = "call"
    /\ ncalls' = ncalls + 1
    /\ UNCHANGED <<outcome, prev, svars, rvars, gvars, avars, lvars, pvars>>

EvalNext == EvaluateCall \/ \E r \in FollowUps : NextCall(r)

SpecEval == EvalInit /\ [][EvalNext]_vars

\* the store used by one caller
StoreNext ==
    \/ \E name \in RegNames, tool \in RegTools : AddTool(name, tool)
    \/ \E name \in RegNames : GetTool(name)
    \/ \E name \in RegNames : RemoveTool(name)
    \/ ListToolNames
    \/ Tools

Spec == Init /\ [][StoreNext]_vars

\* a caller that builds its store from a package and reads it
SpecPkg == Init /\ [][PkgNext]_vars

\* the store used by several goroutines
SpecRace == Init /\ [][RaceNext]_vars

\* the engine, its callers and the consumers of its channels
SpecEngine == Init /\ [][EngineNext]_vars

\* one generation
SpecStream == Init /\ [][StreamNext]_vars

\* one generation with the lock spelled out: who can take the lock does, and
\* who holds it goes on to release it; nothing is assumed of the backend or
\* of the consumer
SpecLock == Init /\ [][LockNext]_vars /\ WF_vars(LockStep)

\* one generation: the goroutine runs its deferred calls once the backend
\* call has returned, and a backend whose context is cancelled goes on to
\* return (it honours the cancellation); the consumer may never read
SpecStreamFair ==
    /\ Init /\ [][StreamNext]_vars
    /\ \A s \in 1..MaxSessions : WF_vars(GoroutineExit(s)) /\ WF_vars(CancelledStep(s))

\* one generation, as SpecStreamFair, with a consumer that ranges over the
\* channel until it is closed
SpecStreamRanged ==
    /\ Init /\ [][StreamNext]_vars
    /\ \A s \in 1..MaxSessions :
          WF_vars(GoroutineExit(s)) /\ WF_vars(CancelledStep(s)) /\ WF_vars(ConsumerStep(s))


----------------------------------------------------------------------------
\* agent.Agent: Execute renders the prompt, has the engine generate, collects
\* the tokens until the channel is closed, decodes the reply, looks the tool
\* up and evaluates it.

\* the store the demos hand to the agent: the calculator's functions
AgentRegistry == [n \in CalculatorTools |-> n]

\* the calls the model answers with; encoding/json decodes every number of
\* the reply into a float64
AgentCalls ==
    {[tool |-> "Divide", args |-> <<FloatV(20), FloatV(4)>>],
     [tool |-> "Divide", args |-> <<FloatV(20), FloatV(0)>>],
     [tool |-> "Factorial", args |-> <<FloatV(6)>>],
     [tool |-> "Add", args |-> <<FloatV(3)>>],
     [tool |-> "Sum", args |-> <<FloatV(3)>>]}

\* the complete answer of the model: JSON of the call, or text that is none
AgentReplies == [wellFormed : BOOLEAN, call : AgentCalls]

\* the prompt rendered from the template, the key of the agent's generation
AgentPrompt == "p1"

\* json.Unmarshal of the collected reply: the reply decodes when the model's
\* answer is JSON and every fragment of it has been collected
Decodes(reply, received) == reply.wellFormed /\ received = [i \in 1..MaxFragments |-> i]

\* Execute from the end of the range loop on: decode, GetTool, Evaluate
ExecuteOn(m, reply, received) ==
    IF ~Decodes(reply, received)
    THEN ExecResult(<<>>, ExecError("decode", TRUE, TRUE), FALSE, NoOutcome,
                    <<"render", "generate", "collect", "decode">>)
    ELSE IF GetToolOn(m, reply.call.tool).op.err # "nil"
    THEN ExecResult(<<>>, ExecError("lookup", FALSE, TRUE), FALSE, NoOutcome,
                    <<"render", "generate", "collect", "decode", "lookup">>)
    ELSE LET tool == GetToolOn(m, reply.call.tool).op.got
             out == Evaluate(tool, reply.call.args)
         IN ExecResult(out.results,
                       IF out.err.sentinel = "nil" THEN NoExecError
                       ELSE ExecError("evaluate", TRUE, FALSE),
                       TRUE, out,
                       <<"render", "generate", "collect", "decode", "lookup", "evaluate">>)

\* Execute up to the range loop: the template is rendered and GenerateTokens
\* called, which returns the channel and a nil error
AgentCallLLM ==
    /\ apc = "start"
    /\ StartSession(AgentPrompt)
    /\ apc' = "range"
    /\ UNCHANGED <<llmReply, execRet, evars, svars, rvars, lvars, pvars>>

\* the range loop receives a token and appends it to the reply
AgentReceive(s) == apc = "range" /\ ConsumerReceive(s)

\* the range loop ends on the closed channel and Execute runs to its return
AgentReturn(s) ==
    /\ apc = "range"
    /\ sess[s].chan = <<>>
    /\ sess[s].closed
    /\ sess' = [sess EXCEPT ![s].eof = TRUE]
    /\ execRet' = ExecuteOn(tools, llmReply, sess[s].received)
    /\ apc' = "done"
    /\ UNCHANGED <<llmReply, activeTasks, nsess, stopRet, evars, svars, rvars, lvars, pvars>>

\* an agent about to run Execute on a store holding the calculator
AgentInit ==
    /\ apc = "start"
    /\ llmReply \in AgentReplies
    /\ execRet = NoExec
    /\ tools = AgentRegistry
    /\ lastOp = NoOp
    /\ pkgRet = NoPkg
    /\ firstReg = AgentRegistry
    /\ req = NoRequest
    /\ outcome = NoOutcome
    /\ prev = NoOutcome
    /\ epc = "idle"
    /\ ncalls = 0
    /\ pc = AllIdle
    /\ call = NoCalls
    /\ ret = NoReturns
    /\ nops = NoOps
    /\ inWrite = {}
    /\ raceSeen = FALSE
    /\ crashed = FALSE
    /\ regCount = NoRegistrations
    /\ activeTasks = NoTasks
    /\ sess = NoSessions
    /\ nsess = 0
    /\ stopRet = NoStop
    /\ mu = MuFree
    /\ cpc = "idle"
    /\ ckey = ""

\* the context of the agent's generation is context.Background(): nothing
\* cancels it
AgentNext ==
    \/ AgentCallLLM
    \/ \E s \in Sessions : BackendFragment(s)
    \/ \E s \in Sessions : CallbackSend(s)
    \/ \E s \in Sessions, r \in {"nil", "error"} : BackendReturn(s, r)
    \/ \E s \in Sessions : GoroutineDelete(s)
    \/ \E s \in Sessions : GoroutineClose(s)
    \/ \E s \in Sessions : AgentReceive(s)
    \/ \E s \in Sessions : AgentReturn(s)

SpecAgent == AgentInit /\ [][AgentNext]_vars

----------------------------------------------------------------------------
\* Properties of the store

\* C1: AddTool of a name that is registered returns ErrToolExists and leaves
\* the map as it was; so the map always holds, for each name, the tool of the
\* successful AddTool not yet removed, GetTool returns that tool, and
\* ListToolNames lists each registered name exactly once.
C1_DuplicateRefused ==
    /\ (lastOp.op = "AddTool" /\ lastOp.name \in DOMAIN lastOp.before) =>
          /\ lastOp.err = "ErrToolExists"
          /\ tools = lastOp.before
    /\ (lastOp.op = "AddTool" /\ lastOp.err = "ErrToolExists") =>
          lastOp.name \in DOMAIN lastOp.before
    /\ tools = firstReg
    /\ (lastOp.op = "GetTool" /\ lastOp.name \in DOMAIN firstReg) =>
          /\ lastOp.err = "nil"
          /\ lastOp.got = firstReg[lastOp.name]
    /\ lastOp.op = "ListToolNames" =>
          \A n \in DOMAIN firstReg :
              Cardinality({i \in DOMAIN lastOp.names : lastOp.names[i] = n}) = 1

C1_Witness ==
    /\ lastOp.op = "AddTool"
    /\ lastOp.err = "ErrToolExists"
    /\ lastOp.name \in DOMAIN tools
    /\ tools[lastOp.name] # lastOp.tool
    /\ tools = lastOp.before
    /\ Cardinality(DOMAIN tools) > 1

\* the names a ListToolNames call gives, as a set
NamesListed(names) == {names[i] : i \in DOMAIN names}

\* C11: RemoveTool of a registered name returns nil, takes exactly that entry
\* out of the map and leaves every other entry as it was; a GetTool of the
\* name made next returns ErrToolNotFound and a ListToolNames made next does
\* not list it.  RemoveTool and GetTool of a name that is not registered
\* return ErrToolNotFound and leave the map as it was.
C11_RemoveThenNotFound ==
    /\ (lastOp.op = "RemoveTool" /\ lastOp.name \in DOMAIN lastOp.before) =>
          /\ lastOp.err = "nil"
          /\ lastOp.name \notin DOMAIN tools
          /\ DOMAIN tools = DOMAIN lastOp.before \ {lastOp.name}
          /\ \A n \in DOMAIN tools : tools[n] = lastOp.before[n]
          /\ GetToolOn(tools, lastOp.name).op.err = "ErrToolNotFound"
          /\ \A order \in KeyOrders(tools) :
                lastOp.name \notin NamesListed(ListToolNamesOn(tools, order).op.names)
    /\ (lastOp.op \in {"RemoveTool", "GetTool"} /\ lastOp.name \notin DOMAIN lastOp.before) =>
          /\ lastOp.err = "ErrToolNotFound"
          /\ tools = lastOp.before
    /\ (lastOp.op \in {"RemoveTool", "GetTool"} /\ lastOp.err = "ErrToolNotFound") =>
          lastOp.name \notin DOMAIN lastOp.before
    /\ (lastOp.op = "GetTool" /\ lastOp.name \notin DOMAIN firstReg) =>
          lastOp.err = "ErrToolNotFound"
    /\ lastOp.op = "ListToolNames" => NamesListed(lastOp.names) = DOMAIN firstReg

C11_Witness ==
    /\ lastOp.op = "RemoveTool"
    /\ lastOp.err = "nil"
    /\ Cardinality(DOMAIN lastOp.before) = 2
    /\ Cardinality(DOMAIN tools) = 1
    /\ lastOp.name \notin DOMAIN tools

\* C2 as stated: no access to the map overlaps a write of the map, the
\* runtime never stops the process for a concurrent map access, and of the
\* AddTool calls made for a name that is not registered at most one succeeds.
C2_AccessUnderLock ==
    /\ ~raceSeen
    /\ ~crashed
    /\ \A n \in RegNames : regCount[n] \in {0, 1}

\* two AddTool calls for the same new name have both returned nil
C2_BothAddsSucceed == \E n \in RegNames : regCount[n] = 2

\* a read of the map has overlapped a write
C2_ReadOverlapsWrite == raceSeen

----------------------------------------------------------------------------
\* Properties of Evaluate, checked under SpecEval

\* the Evaluate call on req has ended and outcome is what it gave
Done == epc \in {"ret", "dead"}

\* the arity check let the request in hand through
CountAccepted == IsFunc(req.tool) /\ ~CountMismatch(req.tool, Len(req.args))

\* the results of a direct call, without a trailing error value
WithoutTrailingError(rets) ==
    IF Len(rets) > 0 /\ rets[Len(rets)].t = "error"
    THEN SubSeq(rets, 1, Len(rets) - 1)
    ELSE rets

\* the code of the error a direct call returned, 0 when it returned none
TrailingErrorCode(rets) ==
    IF Len(rets) > 0 /\ rets[Len(rets)].t = "error" THEN rets[Len(rets)].v ELSE 0

\* the callable was called and panicked
CallableFaulted == Done /\ outcome.called /\ Call(req.tool, outcome.callArgs).panicked

\* the callable was called and returned
CallableReturned == Done /\ outcome.called /\ ~Call(req.tool, outcome.callArgs).panicked

C4_NonVariadicCount ==
    (Done /\ IsFunc(req.tool) /\ ~IsVariadic(req.tool)
          /\ Len(req.args) # NumIn(req.tool)) =>
        /\ ~outcome.escaped
        /\ outcome.err.sentinel = "ErrArgumentMismatch"
        /\ outcome.err.want = NumIn(req.tool)
        /\ outcome.err.got = Len(req.args)
        /\ ~outcome.called
        /\ outcome.results = <<>>

C4_Witness ==
    /\ epc = "ret"
    /\ req.tool = "Add"
    /\ Len(req.args) = NumIn("Add") + 1
    /\ \A i \in 1..Len(req.args) : req.args[i].t = "float64"
    /\ outcome.err.sentinel = "ErrArgumentMismatch"
    /\ ~outcome.called

\* argument i of the request in hand reconciles with its expected type
ArgumentFits(i) ==
    LET arg == req.args[i]
        expected == ExpectedType(req.tool, i)
    IN IF IsVariadic(req.tool) /\ i >= NumIn(req.tool) /\ arg.t \in SliceTypes
       THEN \A j \in 1..Len(arg.elems) : AssignableTo(Elem(arg.t), expected)
       ELSE arg.t # "nil" /\ (AssignableTo(arg.t, expected) \/ CanConvert(arg, expected))

\* C5: a variadic tool fails with ErrArgumentMismatch exactly when it is
\* given fewer than NumIn - 1 arguments; otherwise every argument from
\* position NumIn on is matched against the element type of the variadic
\* parameter (a refusal there names that type, and every value handed to the
\* callable there has it); with exactly NumIn - 1 fitting arguments the
\* callable is called with an empty variadic tail and the call succeeds.
C5_VariadicCount ==
    (Done /\ IsFunc(req.tool) /\ IsVariadic(req.tool)) =>
        LET numIn == NumIn(req.tool)
            elemType == Elem(ParamTypes(req.tool)[numIn])
        IN /\ (outcome.err.sentinel = "ErrArgumentMismatch") <=> (Len(req.args) < numIn - 1)
           /\ (outcome.err.sentinel = "ErrArgumentType" /\ outcome.err.pos >= numIn) =>
                 outcome.err.expected = elemType
           /\ outcome.called =>
                 \A i \in numIn..Len(outcome.callArgs) : outcome.callArgs[i].t = elemType
           /\ (Len(req.args) >= numIn - 1
                 /\ \A i \in 1..Len(req.args) : ArgumentFits(i)) => outcome.called
           /\ (Len(req.args) = numIn - 1
                 /\ \A i \in 1..Len(req.args) : ArgumentFits(i)) =>
                 /\ outcome.called
                 /\ Len(outcome.callArgs) = numIn - 1
                 /\ outcome.err.sentinel = "nil"

C5_Witness ==
    /\ epc = "ret"
    /\ req = [tool |-> "Sum", args |-> <<IntV(3)>>]
    /\ outcome.called
    /\ outcome.callArgs = <<IntV(3)>>
    /\ outcome.err.sentinel = "nil"
    /\ outcome.results = <<FloatV(6)>>

\* argument i is refused by the reconciliation of single arguments: it has a
\* dynamic type, is not a slice in the variadic tail, and its type is neither
\* assignable nor convertible to the expected type
Offending(i) ==
    LET arg == req.args[i]
        expected == ExpectedType(req.tool, i)
    IN /\ arg.t # "nil"
       /\ ~(IsVariadic(req.tool) /\ i >= NumIn(req.tool) /\ arg.t \in SliceTypes)
       /\ ~AssignableTo(arg.t, expected)
       /\ ~CanConvert(arg, expected)

C7_ResultPartition ==
    CallableReturned =>
        LET rets == Call(req.tool, outcome.callArgs).rets
            types == ResultTypes(req.tool)
        IN /\ ~outcome.escaped
           /\ Len(rets) = Len(types)
           /\ IF Len(types) > 0 /\ types[Len(types)] = "error"
              THEN /\ outcome.results = SubSeq(rets, 1, Len(rets) - 1)
                   /\ (outcome.err.sentinel # "nil") <=> (rets[Len(rets)].v # 0)
                   /\ outcome.err.sentinel \in {"nil", "callable"}
                   /\ outcome.err.code = rets[Len(rets)].v
              ELSE /\ outcome.results = rets
                   /\ outcome.err.sentinel = "nil"
           /\ Len(types) = 0 => outcome.results = <<>> /\ outcome.err.sentinel = "nil"

C7_Witness ==
    /\ epc = "ret"
    /\ req = [tool |-> "Divide", args |-> <<FloatV(20), FloatV(5)>>]
    /\ outcome.called
    /\ outcome.results = <<FloatV(8)>>
    /\ outcome.err.sentinel = "nil"

\* the callable returned a non-nil error through its trailing error value
CallableReportedError ==
    CallableReturned /\ TrailingErrorCode(Call(req.tool, outcome.callArgs).rets) # 0

\* C8 as stated: when the callable reports an error through its trailing
\* error value, the failure is that error and the results are empty.
C8_AsStated ==
    CallableReportedError =>
        /\ outcome.err.sentinel = "callable"
        /\ outcome.results = <<>>

\* C8 as amended: when the callable reports an error through its trailing
\* error value, the failure is that very error, not one wrapping
\* ErrFunctionPanic, and the results are the values the callable returned in
\* front of it (for Divide by zero the one value 0), so results and failure
\* are both present.
C8_DomainError ==
    CallableReportedError =>
        LET rets == Call(req.tool, outcome.callArgs).rets
        IN /\ ~outcome.escaped
           /\ outcome.err.sentinel = "callable"
           /\ outcome.err.code = rets[Len(rets)].v
           /\ outcome.err.args = <<>>
           /\ outcome.results = SubSeq(rets, 1, Len(rets) - 1)
           /\ (req.tool = "Divide" => outcome.results = <<FloatV(0)>>)

C8_Witness ==
    /\ epc = "ret"
    /\ req = [tool |-> "Divide", args |-> <<FloatV(20), FloatV(0)>>]
    /\ outcome.called
    /\ outcome.err.sentinel = "callable"
    /\ outcome.err.code = ErrDivisionByZero
    /\ outcome.results = <<FloatV(0)>>

\* the number a numeric value stands for, in halves
Halves(val) == IF val.t = "float64" THEN val.v ELSE 2 * val.v

\* the parameter type can hold the value of val unchanged
Representable(val, target) ==
    CASE target = "float64" -> val.t \in NumericTypes
      [] target = "int" -> val.t \in NumericTypes /\ Halves(val) % 2 = 0
      [] target = "int8" ->
            /\ val.t \in NumericTypes
            /\ Halves(val) % 2 = 0
            /\ Halves(val) \div 2 \in -128..127
      [] OTHER -> FALSE

\* C9 as stated, for numbers handed to numeric parameters: an argument that
\* is not assignable to its parameter type is converted only when the
\* parameter type can hold its value; when it cannot (a fraction or a number
\* out of range for an integer parameter), Evaluate fails with
\* ErrArgumentType and the callable is not called.
C9_LosslessConversion ==
    (Done /\ CountAccepted /\ ~IsVariadic(req.tool)
          /\ \A i \in 1..Len(req.args) :
                /\ req.args[i].t \in NumericTypes
                /\ ExpectedType(req.tool, i) \in NumericTypes) =>
        \A p \in 1..Len(req.args) :
            (/\ ~AssignableTo(req.args[p].t, ExpectedType(req.tool, p))
             /\ ~Representable(req.args[p], ExpectedType(req.tool, p))) =>
                /\ outcome.err.sentinel = "ErrArgumentType"
                /\ ~outcome.called

\* C10: a non-variadic tool given as many arguments as it declares, each of
\* a type assignable to its parameter, is called with exactly these values,
\* and Evaluate gives what the direct call gives: when the direct call
\* returns with no error, or a nil one, Evaluate succeeds with the same
\* values (the nil error dropped); an error the direct call returns is the
\* failure; Evaluate fails with neither a count nor a type mismatch.
C10_AssignableCallAgrees ==
    (Done /\ IsFunc(req.tool) /\ ~IsVariadic(req.tool)
          /\ Len(req.args) = NumIn(req.tool)
          /\ \A i \in 1..Len(req.args) :
                /\ req.args[i].t # "nil"
                /\ AssignableTo(req.args[i].t, ParamTypes(req.tool)[i])) =>
        LET direct == Body(req.tool, req.args)
        IN /\ ~outcome.escaped
           /\ outcome.called
           /\ outcome.callArgs = req.args
           /\ ~direct.panicked =>
                 /\ outcome.results = WithoutTrailingError(direct.rets)
                 /\ (outcome.err.sentinel = "nil") <=> (TrailingErrorCode(direct.rets) = 0)
                 /\ outcome.err.sentinel \in {"nil", "callable"}
                 /\ outcome.err.code = TrailingErrorCode(direct.rets)
           /\ direct.panicked => outcome.err.sentinel = "ErrFunctionPanic"

C10_Witness ==
    /\ epc = "ret"
    /\ req = [tool |-> "Add", args |-> <<FloatV(5), FloatV(20)>>]
    /\ outcome.called
    /\ outcome.callArgs = req.args
    /\ outcome.err.sentinel = "nil"
    /\ outcome.results = <<FloatV(25)>>

\* C19 as stated: a sequence given as the single argument of the variadic
\* tail gives what its elements give when passed one by one (the same
\* results, the same kind of failure, the same values handed to the
\* callable); a sequence that is one of several tail arguments is not
\* unpacked, and is refused like any value that is not of the element type.
C19_UnpackLikeIndividual ==
    (Done /\ IsFunc(req.tool) /\ IsVariadic(req.tool) /\ CountAccepted
          /\ \A i \in 1..Len(req.args) : req.args[i].t # "nil") =>
        LET n == NumIn(req.tool)
            single == Len(req.args) = n /\ req.args[n].t \in SliceTypes
            onebyone == Evaluate(req.tool,
                                 SubSeq(req.args, 1, n - 1) \o req.args[n].elems)
        IN /\ single =>
                 /\ outcome.escaped = onebyone.escaped
                 /\ outcome.results = onebyone.results
                 /\ outcome.err.sentinel = onebyone.err.sentinel
                 /\ outcome.called = onebyone.called
                 /\ outcome.callArgs = onebyone.callArgs
           /\ (Len(req.args) > n
                 /\ (\A i \in 1..(n - 1) : ArgumentFits(i))
                 /\ (\E j \in n..Len(req.args) : req.args[j].t \in SliceTypes)) =>
                 /\ outcome.err.sentinel = "ErrArgumentType"
                 /\ ~outcome.called

----------------------------------------------------------------------------
\* Properties of the engine

\* the numbers 1..n in order: the fragments the backend has handed over
FirstFragments(n) == [i \in 1..n |-> i]

\* the fragments of session s that are on their way to the consumer or with
\* it: received, buffered, and the one the callback is about to send
InFlight(s) ==
    sess[s].received \o sess[s].chan
        \o (IF sess[s].gpc = "callback" THEN <<sess[s].produced>> ELSE <<>>)

\* the table holds the entry that session s stored
HoldsEntryOf(s) ==
    sess[s].key \in DOMAIN activeTasks /\ activeTasks[sess[s].key] = s

\* C12: StopGeneration(key) on a table that holds an entry for key cancels
\* the session of that entry, removes the entry, returns nil and changes
\* nothing else; on a table that holds none it returns the not-found error
\* and changes neither the table nor any session.
C12_StopGeneration ==
    [][\A k \in Prompts :
          StopGeneration(k) =>
              IF k \in DOMAIN activeTasks
              THEN /\ stopRet'.err = "nil"
                   /\ sess'[activeTasks[k]].cancelled
                   /\ sess' = [sess EXCEPT ![activeTasks[k]].cancelled = TRUE]
                   /\ k \notin DOMAIN activeTasks'
                   /\ DOMAIN activeTasks' = DOMAIN activeTasks \ {k}
                   /\ \A j \in DOMAIN activeTasks' : activeTasks'[j] = activeTasks[j]
              ELSE /\ stopRet'.err = "NotFound"
                   /\ activeTasks' = activeTasks
                   /\ sess' = sess]_vars

C12_Witness ==
    /\ stopRet = [key |-> "p1", err |-> "nil"]
    /\ 1 \in Sessions
    /\ sess[1].key = "p1"
    /\ sess[1].cancelled
    /\ sess[1].gpc = "callback"
    /\ "p1" \notin DOMAIN activeTasks

\* the newest session started under key has been stopped
LatestStopped(k) ==
    \E s \in Sessions :
        /\ sess[s].key = k
        /\ sess[s].cancelled
        /\ \A t \in Sessions : (sess[t].key = k) => t <= s

\* C13: once StopGeneration has cancelled a session, its channel is
\* eventually closed, whether or not the consumer reads and whether or not
\* the buffer is full; after the cancellation at most the fragment already
\* in the callback and the MaxLate fragments the backend still hands over are
\* sent, and the buffer never holds more than its capacity; a further
\* StopGeneration of the key, no generation having been started under it
\* since, returns the not-found error.
C13_StopThenClosed ==
    /\ \A s \in 1..MaxSessions :
          (s \in Sessions /\ sess[s].cancelled) ~> (s \in Sessions /\ sess[s].closed)
    /\ [](\A s \in Sessions :
            /\ sess[s].sentAfter <= MaxLate + 1
            /\ Len(sess[s].chan) <= ChanCap)
    /\ [][\A k \in Prompts :
            (StopGeneration(k) /\ LatestStopped(k)) => stopRet'.err = "NotFound"]_vars

C13_Witness ==
    /\ 1 \in Sessions
    /\ sess[1].cancelled
    /\ sess[1].closed
    /\ Len(sess[1].chan) = ChanCap
    /\ sess[1].received = <<>>
    /\ stopRet = [key |-> sess[1].key, err |-> "NotFound"]

C15_NoSendAfterCancel == \A s \in Sessions : sess[s].lateSent = 0

\* C16: once the backend call has returned nil or an error of its own, the
\* channel gets closed, the entry the session stored is gone from the table,
\* and a consumer ranging over the channel sees its loop end; a closed
\* channel belongs to a goroutine that has ended, so nothing is sent on it
\* or closes it again.
C16_ReturnThenClosed ==
    /\ \A s \in 1..MaxSessions :
          (s \in Sessions /\ sess[s].result \in {"nil", "error"}) ~>
              (s \in Sessions /\ sess[s].closed /\ sess[s].eof /\ ~HoldsEntryOf(s))
    /\ [](\A s \in Sessions :
            /\ sess[s].closed => (sess[s].gpc = "done" /\ ~HoldsEntryOf(s))
            /\ sess[s].gpc = "done" => sess[s].closed
            /\ sess[s].eof => sess[s].closed)

C16_Witness ==
    /\ 1 \in Sessions
    /\ sess[1].result = "error"
    /\ sess[1].logged
    /\ sess[1].closed
    /\ sess[1].eof
    /\ sess[1].received # <<>>
    /\ sess[1].key \notin DOMAIN activeTasks

\* what the consumer of session s has to go by: the fragments it received
\* and whether it has seen the channel closed
ConsumerView(s) == [fragments |-> sess[s].received, closed |-> sess[s].eof]

\* C17 as stated: a consumer that has seen the channel closed can tell a
\* generation whose backend call returned an error from one whose backend
\* call returned nil.
C17_ErrorReported ==
    \A s, t \in Sessions :
        (/\ sess[s].result = "error" /\ sess[s].eof
         /\ sess[t].result = "nil" /\ sess[t].eof) =>
            ConsumerView(s) # ConsumerView(t)

\* session s is the newest started under its key, and every older one
\* started under that key has been stopped
StartedAfterStops(s) ==
    \A t \in Sessions \ {s} :
        (sess[t].key = sess[s].key) => (t < s /\ sess[t].cancelled)

\* C20 as stated: the entry of a session that has neither been stopped nor
\* completed, started under its key after every older session of that key
\* was stopped, is in the table (so StopGeneration of its key finds it).
C20_OwnEntryOnly ==
    \A s \in Sessions :
        (/\ StartedAfterStops(s)
         /\ ~sess[s].cancelled
         /\ sess[s].gpc \in {"call", "callback"}) => HoldsEntryOf(s)

----------------------------------------------------------------------------
\* Properties of the agent, checked under SpecAgent

\* the stages of Execute, in the order it runs them
ExecStages == <<"render", "generate", "collect", "decode", "lookup", "evaluate">>

\* the stages up to and including stage st
StagesThrough(st) ==
    LET n == CHOOSE i \in 1..Len(ExecStages) : ExecStages[i] = st
    IN SubSeq(ExecStages, 1, n)

\* the backend call of the agent's generation returned an error
GenerationFailed == 1 \in Sessions /\ sess[1].result = "error"

\* the first stage of the Execute call that failed, "none" when none did
FirstFailure ==
    IF GenerationFailed THEN "generate"
    ELSE IF ~Decodes(llmReply, sess[1].received) THEN "decode"
    ELSE IF llmReply.call.tool \notin DOMAIN tools THEN "lookup"
    ELSE IF Evaluate(tools[llmReply.call.tool], llmReply.call.args).err.sentinel # "nil"
         THEN "evaluate"
         ELSE "none"

\* C18 as stated: Execute returns the failure of the first stage that
\* failed, with that stage's error in it and its text naming the stage, having
\* run the stages up to that one and none after it; the tool is not invoked
\* when generation, decoding or lookup failed.
C18_ShortCircuit ==
    apc = "done" =>
        /\ execRet.err.stage = FirstFailure
        /\ FirstFailure # "none" =>
              /\ execRet.stages = StagesThrough(FirstFailure)
              /\ execRet.err.verbatim
              /\ execRet.err.context
        /\ FirstFailure \in {"generate", "decode", "lookup"} => ~execRet.invoked

\* what does hold of Execute: when the backend call returned no error, the
\* stages run in order up to the first that fails, Execute returns an error
\* of that stage, and the tool is invoked only after the reply decoded and
\* the lookup succeeded.
C18_WithoutBackendError ==
    (apc = "done" /\ ~GenerationFailed) =>
        /\ execRet.err.stage = FirstFailure
        /\ FirstFailure # "none" => execRet.stages = StagesThrough(FirstFailure)
        /\ FirstFailure = "none" => execRet.stages = ExecStages
        /\ FirstFailure \in {"decode", "lookup"} => ~execRet.invoked
        /\ execRet.invoked =>
              execRet.outcome = Evaluate(tools[llmReply.call.tool], llmReply.call.args)

\* the backend call failed after its last fragment and the tool was invoked
C18_InvokedAfterFailure == apc = "done" /\ GenerationFailed /\ execRet.invoked

\* C21: a channel is closed only by a step of its session's goroutine that
\* runs the deferred close after the backend call has returned; it is not
\* closed again (a closed channel stays closed and its goroutine is done),
\* and no step sends on it or adds to its buffer once it is closed.
C21_NoSendAfterClose ==
    [][\A s \in Sessions :
          /\ (~sess[s].closed /\ sess'[s].closed) =>
                /\ GoroutineClose(s)
                /\ sess[s].gpc = "close"
                /\ sess[s].result # "none"
          /\ GoroutineClose(s) => ~sess[s].closed
          /\ CallbackSend(s) => ~sess[s].closed
          /\ sess[s].closed =>
                /\ sess'[s].closed
                /\ sess'[s].gpc = "done"
                /\ Len(sess'[s].chan) <= Len(sess[s].chan)
                /\ sess'[s].received \o sess'[s].chan = sess[s].received \o sess[s].chan]_vars

C21_Witness ==
    /\ 1 \in Sessions
    /\ sess[1].closed
    /\ sess[1].cancelled
    /\ sess[1].sentAfter > 0
    /\ sess[1].eof
    /\ sess[1].received # <<>>

\* C22: the lock is held by the caller only between the Lock and the Unlock
\* of GenerateTokens and StopGeneration, and by a goroutine only inside its
\* deferred delete, so never by a goroutine that waits for the backend or is
\* in the callback's select; a caller waiting for the lock in StopGeneration
\* gets it and returns, whatever the backend and the consumer do, and a lock
\* that is held gets released.
C22_LockOnlyForTable ==
    /\ [](/\ (mu = MuCaller) <=> (cpc \in {"gen_locked", "stop_locked"})
          /\ \A s \in Sessions : (mu = MuGoroutine(s)) <=> (sess[s].gpc = "deleting")
          /\ mu \in {MuFree, MuCaller} \cup {MuGoroutine(s) : s \in Sessions})
    /\ (cpc = "stop_lock") ~> (cpc = "idle" /\ stopRet.key = ckey)
    /\ (mu # MuFree) ~> (mu = MuFree)

C22_Witness ==
    /\ cpc = "stop_locked"
    /\ ckey = "p2"
    /\ 1 \in Sessions
    /\ sess[1].key = "p1"
    /\ sess[1].gpc = "callback"
    /\ ~sess[1].cancelled
    /\ Len(sess[1].chan) = ChanCap
    /\ sess[1].received = <<>>

\* a session after which another one was started under the same prompt
Superseded(s) == \E t \in Sessions : t > s /\ sess[t].key = sess[s].key

\* C23: the table holds one entry per prompt, the one of the session started
\* last under it: a GenerateTokens stores the new session's cancel under the
\* prompt and invokes no cancel, a cancel is invoked only by a StopGeneration
\* of the prompt whose entry it is, which invokes that one alone and removes
\* the entry, and the cancel of a superseded session is never invoked.
C23_OverwriteWithoutCancel ==
    [][/\ \A k \in DOMAIN activeTasks' :
             /\ activeTasks'[k] \in Sessions'
             /\ sess'[activeTasks'[k]].key = k
             /\ \A t \in Sessions' : sess'[t].key = k => t <= activeTasks'[k]
       /\ nsess' # nsess =>
             /\ activeTasks'[sess'[nsess'].key] = nsess'
             /\ \A s \in Sessions : sess'[s].cancelled = sess[s].cancelled
       /\ \A s \in Sessions :
             Superseded(s) => sess'[s].cancelled = sess[s].cancelled
       /\ \A s \in Sessions :
             (sess'[s].cancelled /\ ~sess[s].cancelled) =>
                 /\ sess[s].key \in DOMAIN activeTasks
                 /\ activeTasks[sess[s].key] = s
                 /\ sess[s].key \notin DOMAIN activeTasks'
                 /\ stopRet' = [key |-> sess[s].key, err |-> "nil"]
                 /\ \A t \in Sessions \ {s} : sess'[t].cancelled = sess[t].cancelled
      ]_vars

C23_Witness ==
    /\ Sessions = {1, 2}
    /\ sess[1].key = sess[2].key
    /\ sess[2].cancelled
    /\ ~sess[1].cancelled
    /\ sess[1].gpc \in {"call", "callback"}
    /\ sess[1].produced > 0
    /\ stopRet = [key |-> sess[1].key, err |-> "nil"]
    /\ sess[1].key \notin DOMAIN activeTasks

\* C24: every Evaluate call returns to its caller, with results or with an
\* error; no panic leaves it, in particular not for an argument sequence
\* that holds a nil value.
C24_EvaluateTotal ==
    Done => /\ epc = "ret"
            /\ ~outcome.escaped

\* C25: the entry of a session is deleted before its channel is closed: once
\* the channel is closed, and so whenever the consumer has seen its end, the
\* table does not hold the prompt (no other session having been started
\* under it), and a StopGeneration of the prompt that runs after the
\* consumer has seen the end returns the not-found error and changes nothing.
C25_DeleteBeforeClose ==
    /\ [](\A s \in Sessions :
             (sess[s].closed \/ sess[s].eof) =>
                 /\ sess[s].gpc = "done"
                 /\ sess[s].key \notin DOMAIN activeTasks)
    /\ [][\A s \in Sessions :
             (sess[s].eof /\ cpc = "stop_locked" /\ ckey = sess[s].key /\ cpc' = "idle") =>
                 /\ stopRet' = [key |-> sess[s].key, err |-> "NotFound"]
                 /\ activeTasks' = activeTasks
                 /\ sess' = sess
      ]_vars

C25_Witness ==
    /\ 1 \in Sessions
    /\ sess[1].eof
    /\ Len(sess[1].received) = MaxFragments
    /\ ~sess[1].cancelled
    /\ cpc = "stop_locked"
    /\ ckey = sess[1].key
    /\ mu = MuCaller

\* the functions of the call whose metadata extraction fails
PkgFailures == pkgRet.failing \cap DOMAIN pkgRet.funcMap

\* C26: NewFunctionStoreFromPkg returns for every logger argument, nil
\* included: with no store and an error wrapping ErrMetadataExtraction when
\* the extraction fails for some function, and otherwise with no error and a
\* store that holds exactly the names of funcMap, each with its function.
C26_AllOrNothing ==
    pkgRet.called =>
        /\ ~pkgRet.ret.panicked
        /\ IF PkgFailures # {}
           THEN /\ ~pkgRet.ret.hasStore
                /\ pkgRet.ret.err = "ErrMetadataExtraction"
                /\ pkgRet.ret.failed \in PkgFailures
           ELSE /\ pkgRet.ret.hasStore
                /\ pkgRet.ret.err = "nil"
                /\ pkgRet.ret.store = pkgRet.funcMap

====
